---- MODULE Spec2Model ----
(***************************************************************************)
(* Model of the regular-expression core of the repository:                 *)
(*   reRes   (src/RE/re2nfa.ts 200-412)  pattern text -> expression tree   *)
(*   re2nfa  (src/RE/re2nfa.ts  25-137)  Thompson construction             *)
(*   run     (src/RE/re2nfa.ts 142-197)  backtracking NFA matcher          *)
(*   re2dfa  (src/RE/re2dfa.ts  20-128)  subset construction               *)
(*   run     (src/RE/re2dfa.ts 130-178)  DFA matcher                       *)
(*                                                                         *)
(* A string is a sequence of one-character strings.  A value read from a   *)
(* string (a "unit") is a sequence of one or two characters; null and      *)
(* undefined are separate values that no unit equals.                      *)
(***************************************************************************)
EXTENDS Integers, Sequences, FiniteSets, TLC

\* ------------------------------------------------------------------ bounds
MaxPatLen == 3
MaxInLen == 2
MaxDfaStates == 20
MaxCalls == 2

\* ------------------------------------------------------------- vocabulary
BS == "\\"

PatternAlphabet == {"a", "b", "|", "(", ")", "*", BS}
InputAlphabet == {"a", "b", "*", BS}

Strs(alphabet, n) == UNION {[1..k -> alphabet] : k \in 0..n}

\* The patterns and inputs quoted by the documentation of the core.
ExamplePatterns ==
    { <<"a", "|", "b">>,
      <<"a", "*">>,
      <<"(", "a", "b", ")", "*">>,
      <<"(", "a", "|", "b", ")", "*", "c">>,
      <<"a", BS, "*">>,
      <<"(", "a">>,
      <<"a", BS>>,
      <<"a", "b", "|", "a">> }

\* A pattern whose NFA has 36 nodes, so that node ids of two digits occur
\* next to ids of one digit in the subset states.
LongPatterns ==
    { <<"(", "a", "|">> \o [i \in 1..14 |-> "c"] \o <<")", "|", "b">> }

ExampleInputs ==
    { <<>>, <<"a">>, <<"b">>, <<"c">>, <<"a", "b">>, <<"a", "*">>,
      <<"a", "a", "a", "a">>,
      <<"a", "b", "a">>,
      <<"a", "b", "a", "b">>,
      <<"a", "a", "b", "b">>,
      <<"a", "a", "b", "b", "c">>,
      <<"a", BS, "*">> }

Patterns == Strs(PatternAlphabet, MaxPatLen) \cup ExamplePatterns \cup LongPatterns
Inputs == Strs(InputAlphabet, MaxInLen) \cup ExampleInputs

Null == <<>>
Undefined == <<"undefined">>
Epsilon == <<"epsilon">>

\* ======================================================================
\* reRes: the grammar parser
\*   or = union {'|' union} ; union = {multi} ;
\*   multi = (char | group) ['*'] ; group = '(' [or] ')'
\* The closure state of reRes (input, index, longestIndex) travels in a
\* record together with the completion of the last call: status "ok" with
\* its return value, or status "throw" with the Error that was thrown.
\* ======================================================================
keyWords == { <<"|">>, <<"(">>, <<")">>, <<"*">> }

NoError == [name |-> "", msg |-> "", pos |-> 0]

reResInit(input) ==
    [input |-> input, index |-> 0, longestIndex |-> 0,
     status |-> "ok", value |-> Null, error |-> NoError, deadRaised |-> FALSE]

Return(st, v) == [st EXCEPT !.status = "ok", !.value = v, !.error = NoError]

Threw(r) == r.status = "throw"

\* deadRaised records that an error named 'dead' has been thrown since the
\* parse began
castError(st, msg) ==
    [st EXCEPT !.status = "throw", !.value = Null,
               !.error = IF msg # ""
                         THEN [name |-> "dead", msg |-> msg, pos |-> st.index]
                         ELSE [name |-> "Error", msg |-> "", pos |-> st.longestIndex],
               !.deadRaised = @ \/ msg # ""]

peek(st, step) ==
    IF st.index + step + 1 \in DOMAIN st.input
    THEN <<st.input[st.index + step + 1]>>
    ELSE Null

read_noDanglingCheck(st) ==
    LET char == peek(st, 0)
        nextChar == peek(st, 1)
        st1 == IF char # Null /\ char # <<BS>>
               THEN [st EXCEPT !.index = @ + 1] ELSE st
        st2 == IF char = <<BS>> /\ nextChar # Null
               THEN [st1 EXCEPT !.index = @ + 2] ELSE st1
        c2 == IF char = <<BS>> /\ nextChar # Null THEN char \o nextChar ELSE char
        st3 == IF char = <<BS>> /\ nextChar = Null
               THEN [st2 EXCEPT !.index = @ + 1] ELSE st2
        st4 == IF st3.index > st3.longestIndex
               THEN [st3 EXCEPT !.longestIndex = st3.index] ELSE st3
    IN  Return(st4, c2)

read(st) ==
    LET char == peek(st, 0)
        nextChar == peek(st, 1)
        st1 == IF char # Null /\ char # <<BS>>
               THEN [st EXCEPT !.index = @ + 1] ELSE st
        st2 == IF char = <<BS>> /\ nextChar # Null
               THEN [st1 EXCEPT !.index = @ + 2] ELSE st1
        c2 == IF char = <<BS>> /\ nextChar # Null THEN char \o nextChar ELSE char
        st3 == IF st2.index > st2.longestIndex
               THEN [st2 EXCEPT !.longestIndex = st2.index] ELSE st2
    IN  IF char = <<BS>> /\ nextChar = Null
        THEN castError(st1, "dangling escape")
        ELSE Return(st3, c2)

\* the checks of readChar on the completion r of read()
readCharCheck(r, char) ==
    IF Threw(r) THEN r
    ELSE IF char = Undefined /\ r.value # Null /\ r.value \notin keyWords
    THEN Return(r, r.value)
    ELSE IF r.value # char THEN castError(r, "")
    ELSE Return(r, r.value)

readChar(st, char) == readCharCheck(read(st), char)

RECURSIVE call(_, _)
RECURSIVE orReadFrom(_, _, _, _)
RECURSIVE multiReadWhile(_, _, _, _, _)
RECURSIVE readOrExpr(_)
RECURSIVE readUnionExpr(_)
RECURSIVE readMultiExpr(_)
RECURSIVE readGroupExpr(_)

\* the catch clause of orRead without the test of e.name === 'dead'
orReadTry_swallowsDead(r, readings, k, currentIndex) ==
    IF ~Threw(r) THEN r
    ELSE orReadFrom([r EXCEPT !.index = currentIndex, !.status = "ok", !.error = NoError],
                    readings, k + 1, currentIndex)

\* try { node = reading(); break } catch (e) { ... } of orRead, on the
\* completion r of the k-th reading
orReadTry(r, readings, k, currentIndex) ==
    IF ~Threw(r) THEN r
    ELSE IF r.error.name = "dead" THEN r
    ELSE orReadFrom([r EXCEPT !.index = currentIndex, !.status = "ok", !.error = NoError],
                    readings, k + 1, currentIndex)

\* for (let reading of readings) of orRead, from the k-th reading on, and
\* the test of node === null after it
orReadFrom(st, readings, k, currentIndex) ==
    IF k > Len(readings)
    THEN castError(st, "")
    ELSE orReadTry(call(readings[k], st), readings, k, currentIndex)

orRead(st, readings) == orReadFrom(st, readings, 1, st.index)

\* the catch clause of existRead without index = currentIndex
existReadTry_noRestore(r, currentIndex) ==
    IF ~Threw(r) THEN r
    ELSE IF r.error.name = "dead" THEN r
    ELSE Return(r, Null)

\* try { node = reading() } catch (e) { ... } of existRead, on the
\* completion r of the reading
existReadTry(r, currentIndex) ==
    IF ~Threw(r) THEN r
    ELSE IF r.error.name = "dead" THEN r
    ELSE Return([r EXCEPT !.index = currentIndex], Null)

existRead(st, reading) == existReadTry(call(reading, st), st.index)

\* the body of the while loop of multiRead and the catch clause, on the
\* completion r of the reading
multiReadTry(r, reading, allowEmpty, nodes, currentIndex) ==
    IF ~Threw(r)
    THEN multiReadWhile(r, reading, allowEmpty, Append(nodes, r.value), r.index)
    ELSE IF r.error.name = "dead" THEN [r EXCEPT !.index = currentIndex]
    ELSE IF ~allowEmpty /\ Len(nodes) = 0
    THEN castError([r EXCEPT !.index = currentIndex], "")
    ELSE Return([r EXCEPT !.index = currentIndex], nodes)

\* while (index < input.length) of multiRead
multiReadWhile(st, reading, allowEmpty, nodes, currentIndex) ==
    IF st.index < Len(st.input)
    THEN multiReadTry(call(reading, st), reading, allowEmpty, nodes, currentIndex)
    ELSE Return(st, nodes)

multiRead(st, reading, allowEmpty) ==
    multiReadWhile(st, reading, allowEmpty, <<>>, st.index)

\* the return of readCharExpr, on the completion r of readChar()
readCharExprNode(r) ==
    IF Threw(r) THEN r ELSE Return(r, [type |-> "char", child |-> r.value])

readCharExpr(st) == readCharExprNode(readChar(st, Undefined))

\* try { return readUnionExpr() } catch (e) { castError('invalid orExpr') }
readOrExprNextTry(u) ==
    IF Threw(u) THEN castError(u, "invalid orExpr") ELSE u

\* the arrow function of readOrExpr after readChar('|') completed as bar
readOrExprNextUnion(bar) ==
    IF Threw(bar) THEN bar ELSE readOrExprNextTry(readUnionExpr(bar))

\* the arrow function handed to multiRead by readOrExpr
readOrExprNext(st) == readOrExprNextUnion(readChar(st, <<"|">>))

\* the return of readOrExpr, on the completion of multiRead
readOrExprNode(firstUnion, nextUnions) ==
    IF Threw(nextUnions) THEN nextUnions
    ELSE IF Len(nextUnions.value) > 0
    THEN Return(nextUnions, [type |-> "or", children |-> <<firstUnion>> \o nextUnions.value])
    ELSE Return(nextUnions, firstUnion)

\* readOrExpr after readUnionExpr() completed as firstUnion
readOrExprNextUnions(firstUnion) ==
    IF Threw(firstUnion) THEN firstUnion
    ELSE readOrExprNode(firstUnion.value, multiRead(firstUnion, "readOrExprNext", TRUE))

readOrExpr(st) == readOrExprNextUnions(readUnionExpr(st))

\* the return of readUnionExpr, on the completion of multiRead
readUnionExprNode(nodes) ==
    IF Threw(nodes) THEN nodes
    ELSE Return(nodes, [type |-> "union", children |-> nodes.value])

readUnionExpr(st) == readUnionExprNode(multiRead(st, "readMultiExpr", TRUE))

\* () => readChar('*')
readStar(st) == readChar(st, <<"*">>)

\* readMultiExpr taking a second '*' after the first as a repetition of the
\* repetition
readMultiExprNode_chained(node, note) ==
    IF Threw(note) THEN note
    ELSE IF note.value # Null
    THEN LET more == existRead(note, "readStar")
         IN  IF ~Threw(more) /\ more.value # Null
             THEN Return(more, [type |-> "multi",
                                child |-> [type |-> "multi", child |-> node]])
             ELSE Return(note, [type |-> "multi", child |-> node])
    ELSE Return(note, node)

\* the return of readMultiExpr, on the completion of existRead
readMultiExprNode(node, note) ==
    IF Threw(note) THEN note
    ELSE IF note.value # Null THEN Return(note, [type |-> "multi", child |-> node])
    ELSE Return(note, node)

\* readMultiExpr after orRead completed as node
readMultiExprNote(node) ==
    IF Threw(node) THEN node
    ELSE readMultiExprNode(node.value, existRead(node, "readStar"))

readMultiExpr(st) == readMultiExprNote(orRead(st, <<"readCharExpr", "readGroupExpr">>))

readGroupExprNode_noClose(node, close) ==
    IF Threw(close) /\ close.index < Len(close.input)
    THEN castError(close, "invalid group")
    ELSE Return(close, [type |-> "group", child |-> node])

\* the end of the try block of readGroupExpr and its catch clause, on the
\* completion close of readChar(')')
readGroupExprNode(node, close) ==
    IF Threw(close) THEN castError(close, "invalid group")
    ELSE Return(close, [type |-> "group", child |-> node])

\* the try block of readGroupExpr and its catch clause, on the completion
\* node of existRead(readOrExpr)
readGroupExprClose(node) ==
    IF Threw(node) THEN castError(node, "invalid group")
    ELSE readGroupExprNode(node.value, readChar(node, <<")">>))

\* readGroupExpr after readChar('(') completed as open
readGroupExprTry(open) ==
    IF Threw(open) THEN open
    ELSE readGroupExprClose(existRead(open, "readOrExpr"))

readGroupExpr(st) == readGroupExprTry(readChar(st, <<"(">>))

\* reading(): the readings handed to the combinators, by name
call(reading, st) ==
    CASE reading = "readCharExpr" -> readCharExpr(st)
      [] reading = "readGroupExpr" -> readGroupExpr(st)
      [] reading = "readMultiExpr" -> readMultiExpr(st)
      [] reading = "readOrExpr" -> readOrExpr(st)
      [] reading = "readOrExprNext" -> readOrExprNext(st)
      [] reading = "readStar" -> readStar(st)

readRootCheck_noTrailing(node) == node

\* the test of readRoot on the completion node of readOrExpr()
readRootCheck(node) ==
    IF Threw(node) THEN node
    ELSE IF node.index < Len(node.input) THEN castError(node, "")
    ELSE node

readRoot(st) == readRootCheck(readOrExpr(st))

reRes(input) == readRoot(reResInit(input))

\* ======================================================================
\* re2nfa: Thompson construction.  The graph is the sequence of the nodes
\* created so far (the node with id i is nodes[i + 1]) and the id counter;
\* a transition holds the id of its target node.
\* ======================================================================
EmptyGraph == [nodes |-> <<>>, id |-> 0]

NodeOf(g, n) == g.nodes[n + 1]

\* createNode: returns the graph with the new node, whose id is r.node
createNode(g, type) ==
    [g |-> [nodes |-> Append(g.nodes, [id |-> g.id, type |-> type, transitions |-> <<>>]),
            id |-> g.id + 1],
     node |-> g.id]

createTransition(value, next) == [value |-> value, next |-> next]

link(g, prevNode, nextNode, value) ==
    [g EXCEPT !.nodes[prevNode + 1].transitions =
                  Append(@, createTransition(value, nextNode))]

\* node.type = type
setType(g, n, type) == [g EXCEPT !.nodes[n + 1].type = type]

RECURSIVE build(_, _)
RECURSIVE buildUnionReduce(_, _, _, _, _, _)
RECURSIVE buildOrForEach(_, _, _, _, _)

buildChar(g, node) ==
    LET s == createNode(g, "start")
        e == createNode(s.g, "end")
    IN  [g |-> link(e.g, s.node, e.node, node.child), s |-> s.node, e |-> e.node]

\* the body of the reduce callback of buildUnion for child i, whose build
\* returned b; start, end and current are -1 while they are null
buildUnionCallback(b, children, i, start, end, current) ==
    IF current # -1
    THEN buildUnionReduce(link(setType(setType(b.g, current, "normal"), b.s, "normal"),
                               current, b.s, Epsilon),
                          children, i + 1,
                          IF i = 1 THEN b.s ELSE start,
                          IF i = Len(children) THEN b.e ELSE end,
                          b.e)
    ELSE buildUnionReduce(b.g, children, i + 1,
                          IF i = 1 THEN b.s ELSE start,
                          IF i = Len(children) THEN b.e ELSE end,
                          b.e)

\* node.children.reduce(..., start) of buildUnion, from child i on
buildUnionReduce(g, children, i, start, end, current) ==
    IF i > Len(children)
    THEN [g |-> g, s |-> start, e |-> end]
    ELSE buildUnionCallback(build(g, children[i]), children, i, start, end, current)

buildUnion(g, node) ==
    IF Len(node.children) > 0
    THEN buildUnionReduce(g, node.children, 1, -1, -1, -1)
    ELSE LET s == createNode(g, "start")
             e == createNode(s.g, "end")
         IN  [g |-> link(e.g, s.node, e.node, Epsilon), s |-> s.node, e |-> e.node]

\* the forEach callback of buildOr, from child i on
buildOrForEach(g, children, i, start, end) ==
    IF i > Len(children)
    THEN g
    ELSE LET b == build(g, children[i])
             g1 == setType(setType(b.g, b.s, "normal"), b.e, "normal")
             g2 == link(link(g1, start, b.s, Epsilon), b.e, end, Epsilon)
         IN  buildOrForEach(g2, children, i + 1, start, end)

buildOr(g, node) ==
    LET s == createNode(g, "start")
        e == createNode(s.g, "end")
    IN  [g |-> buildOrForEach(e.g, node.children, 1, s.node, e.node),
         s |-> s.node, e |-> e.node]

\* buildMulti without s.type = 'normal' and e.type = 'normal'
buildMulti_keepsKinds(g, node) ==
    LET start == createNode(g, "start")
        end == createNode(start.g, "end")
        b == build(end.g, node.child)
        g2 == link(b.g, b.e, b.s, Epsilon)
        g3 == link(g2, start.node, b.s, Epsilon)
        g4 == link(g3, b.e, end.node, Epsilon)
    IN  [g |-> g4, s |-> start.node, e |-> end.node]

buildMulti(g, node) ==
    LET start == createNode(g, "start")
        end == createNode(start.g, "end")
        b == build(end.g, node.child)
        g1 == setType(setType(b.g, b.s, "normal"), b.e, "normal")
        g2 == link(g1, b.e, b.s, Epsilon)
        g3 == link(g2, start.node, b.s, Epsilon)
        g4 == link(g3, b.e, end.node, Epsilon)
    IN  [g |-> g4, s |-> start.node, e |-> end.node]

\* buildGroup wrapping its child in a start and an end node of its own
buildGroup_wraps(g, node) ==
    LET start == createNode(g, "start")
        end == createNode(start.g, "end")
        b == build(end.g, node.child)
        g1 == setType(setType(b.g, b.s, "normal"), b.e, "normal")
    IN  [g |-> link(link(g1, start.node, b.s, Epsilon), b.e, end.node, Epsilon),
         s |-> start.node, e |-> end.node]

buildGroup(g, node) == build(g, node.child)

build(g, node) ==
    CASE node.type = "char" -> buildChar(g, node)
      [] node.type = "union" -> buildUnion(g, node)
      [] node.type = "group" -> buildGroup(g, node)
      [] node.type = "or" -> buildOr(g, node)
      [] node.type = "multi" -> buildMulti(g, node)

\* re2nfa, given the tree reRes returned: the graph and its start node
re2nfa(reTree) ==
    LET b == build(EmptyGraph, reTree)
    IN  [nodes |-> b.g.nodes, id |-> b.g.id, start |-> b.s]

\* ======================================================================
\* run (re2nfa.ts): the backtracking matcher
\* ======================================================================

\* readChar of run: the unit at index and the index after it.  nextChar is
\* read at index, which the backslash branch has not advanced.
nfaReadChar(input, index) ==
    LET char == IF index + 1 \in DOMAIN input THEN <<input[index + 1]>> ELSE Null
        index1 == IF char # Null /\ char # <<BS>> THEN index + 1 ELSE index
        nextChar == IF index1 + 1 \in DOMAIN input THEN <<input[index1 + 1]>> ELSE Null
    IN  IF char = <<BS>>
        THEN IF nextChar # Null
             THEN [char |-> char \o nextChar, index |-> index1 + 2, threw |-> FALSE]
             ELSE [char |-> Null, index |-> index1, threw |-> TRUE]
        ELSE [char |-> char, index |-> index1, threw |-> FALSE]

RECURSIVE nfaTransit(_, _, _, _, _)
RECURSIVE nfaTransitForEach(_, _, _, _, _, _, _)

\* transit(node).  st holds the variables of run: index and inTheEnd, and
\* threw once an exception is on its way out of run.  transit is a
\* deterministic function of (node, index) while inTheEnd is false, so a
\* call for a pair that is already on the call stack recurses without end
\* and the engine throws RangeError (call stack exceeded): stack is the set
\* of the pairs of the calls in progress.  st.advanced records that some
\* epsilon transition was taken while index was not the currentIndex of its
\* node (a character transition sets index = currentIndex before it reads).
nfaTransit(g, input, node, st, stack) ==
    IF NodeOf(g, node).type = "end"
    THEN [st EXCEPT !.inTheEnd = TRUE]
    ELSE IF <<node, st.index>> \in stack
    THEN [st EXCEPT !.threw = TRUE]
    ELSE nfaTransitForEach(g, input, node, 1, st.index, st,
                           stack \cup {<<node, st.index>>})

\* node.transitions.forEach(t => ...) from the k-th transition on
nfaTransitForEach(g, input, node, k, currentIndex, st, stack) ==
    IF k > Len(NodeOf(g, node).transitions) \/ st.threw
    THEN st
    ELSE LET t == NodeOf(g, node).transitions[k]
             rd == nfaReadChar(input, currentIndex)
             st1 == IF st.inTheEnd THEN st
                    ELSE IF t.value = Epsilon
                    THEN nfaTransit(g, input, t.next,
                                    [st EXCEPT !.advanced = @ \/ st.index # currentIndex],
                                    stack)
                    ELSE IF rd.threw
                    THEN [st EXCEPT !.index = rd.index, !.threw = TRUE]
                    ELSE IF rd.char # Null /\ t.value = rd.char
                    THEN nfaTransit(g, input, t.next, [st EXCEPT !.index = rd.index], stack)
                    ELSE [st EXCEPT !.index = currentIndex]
         IN  nfaTransitForEach(g, input, node, k + 1, currentIndex, st1, stack)

\* run(regex, input) once re2nfa(regex) has returned nfa
nfaRun(nfa, input) ==
    nfaTransit(nfa, input, nfa.start,
               [index |-> 0, inTheEnd |-> FALSE, threw |-> FALSE, advanced |-> FALSE], {})

\* ======================================================================
\* re2dfa: subset construction.  A Set is the sequence of its members in
\* insertion order; a transition of a subset node holds the position of its
\* target in queue.
\* ======================================================================
SetAdd(set, x) == IF \E i \in DOMAIN set : set[i] = x THEN set ELSE Append(set, x)

SetHas(set, x) == \E i \in DOMAIN set : set[i] = x

RECURSIVE dfs(_, _, _)
RECURSIVE dfsForEach(_, _, _, _)

dfs(g, node, clousreSet) == dfsForEach(g, node, 1, SetAdd(clousreSet, node))

dfsForEach(g, node, k, clousreSet) ==
    IF k > Len(NodeOf(g, node).transitions)
    THEN clousreSet
    ELSE LET t == NodeOf(g, node).transitions[k]
         IN  dfsForEach(g, node, k + 1,
                        IF t.value = Epsilon /\ ~SetHas(clousreSet, t.next)
                        THEN dfs(g, t.next, clousreSet)
                        ELSE clousreSet)

epsilonClosure(g, node) == dfs(g, node, <<>>)

\* String(n): the decimal digits of a node id
RECURSIVE idToString(_)
idToString(n) == IF n < 10 THEN <<n>> ELSE Append(idToString(n \div 10), n % 10)

\* a < b for strings of digits, by code unit, as Array.prototype.sort compares
RECURSIVE StrLess(_, _)
StrLess(a, b) ==
    IF Len(a) = 0 THEN Len(b) > 0
    ELSE IF Len(b) = 0 THEN FALSE
    ELSE IF a[1] # b[1] THEN a[1] < b[1]
    ELSE StrLess(Tail(a), Tail(b))

RECURSIVE SortInsert(_, _)
SortInsert(sorted, x) ==
    IF Len(sorted) = 0 THEN <<x>>
    ELSE IF StrLess(x, sorted[1]) THEN <<x>> \o sorted
    ELSE <<sorted[1]>> \o SortInsert(Tail(sorted), x)

\* Array.prototype.sort without a comparator: by string value (stable)
RECURSIVE SortStrings(_)
SortStrings(strs) ==
    IF Len(strs) = 0 THEN <<>>
    ELSE SortInsert(SortStrings(SubSeq(strs, 1, Len(strs) - 1)), strs[Len(strs)])

RECURSIVE Join(_)
Join(strs) == IF Len(strs) = 0 THEN <<>> ELSE strs[1] \o Join(Tail(strs))

\* Array.from(set).map(node => node.id).sort().join('')
qNodeId(g, set) ==
    Join(SortStrings([i \in DOMAIN set |-> idToString(NodeOf(g, set[i]).id)]))

RECURSIVE validInputOf(_, _, _, _, _)
\* the two nested forEach of buildQNode that collect validInput
validInputOf(g, set, i, k, validInput) ==
    IF i > Len(set) THEN validInput
    ELSE IF k > Len(NodeOf(g, set[i]).transitions)
    THEN validInputOf(g, set, i + 1, 1, validInput)
    ELSE LET t == NodeOf(g, set[i]).transitions[k]
         IN  validInputOf(g, set, i, k + 1,
                          IF t.value # Epsilon THEN SetAdd(validInput, t.value)
                          ELSE validInput)

\* buildQNode leaving the first label found out of validInput
buildQNode_dropsInput(g, set) ==
    [set |-> set,
     transitions |-> <<>>,
     validInput |-> IF Len(validInputOf(g, set, 1, 1, <<>>)) > 0
                    THEN Tail(validInputOf(g, set, 1, 1, <<>>)) ELSE <<>>,
     end |-> \E i \in DOMAIN set : NodeOf(g, set[i]).type = "end",
     id |-> qNodeId(g, set)]

buildQNode(g, set) ==
    [set |-> set,
     transitions |-> <<>>,
     validInput |-> validInputOf(g, set, 1, 1, <<>>),
     end |-> \E i \in DOMAIN set : NodeOf(g, set[i]).type = "end",
     id |-> qNodeId(g, set)]

RECURSIVE moveTargets(_, _, _, _, _, _)
\* the two nested forEach of transit (re2dfa) that collect nodeSet
moveTargets(g, set, c, i, k, nodeSet) ==
    IF i > Len(set) THEN nodeSet
    ELSE IF k > Len(NodeOf(g, set[i]).transitions)
    THEN moveTargets(g, set, c, i + 1, 1, nodeSet)
    ELSE LET t == NodeOf(g, set[i]).transitions[k]
         IN  moveTargets(g, set, c, i, k + 1,
                         IF t.value = c THEN SetAdd(nodeSet, t.next) ELSE nodeSet)

RECURSIVE closureUnion(_, _, _, _)
\* nodeSet.forEach(node => epsilonClosure(node).forEach(n => epsilonSet.add(n)))
closureUnion(g, nodeSet, i, epsilonSet) ==
    IF i > Len(nodeSet) THEN epsilonSet
    ELSE LET cl == epsilonClosure(g, nodeSet[i])
             AddAll[j \in 0..Len(cl)] ==
                 IF j = 0 THEN epsilonSet ELSE SetAdd(AddAll[j - 1], cl[j])
         IN  closureUnion(g, nodeSet, i + 1, AddAll[Len(cl)])

\* transit(q, c) of re2dfa: the subset node reached, or Null
qTransit(g, q, c) ==
    LET nodeSet == moveTargets(g, q.set, c, 1, 1, <<>>)
    IN  IF Len(nodeSet) > 0
        THEN buildQNode(g, closureUnion(g, nodeSet, 1, <<>>))
        ELSE Null

setTransit(queue, prevNode, nextNode, value) ==
    [queue EXCEPT ![prevNode].transitions = Append(@, [value |-> value, next |-> nextNode])]

findSameQ_never(queue, id) == 0

\* queue.find(q => q.id === id): the position of the first such node, or 0
findSameQ(queue, id) ==
    IF \E i \in DOMAIN queue : queue[i].id = id
    THEN CHOOSE i \in DOMAIN queue :
             /\ queue[i].id = id
             /\ \A j \in 1..(i - 1) : queue[j].id # id
    ELSE 0

RECURSIVE buildWhile(_, _, _)
RECURSIVE buildForEach(_, _, _, _, _)

\* q.validInput.forEach(c => ...) of build, from the k-th symbol on; q is
\* the position in queue of the node shifted off the work list
buildForEach(g, queue, workList, q, k) ==
    IF k > Len(queue[q].validInput)
    THEN [queue |-> queue, workList |-> workList]
    ELSE LET c == queue[q].validInput[k]
             nextQ == qTransit(g, queue[q], c)
             sameQ == findSameQ(queue, nextQ.id)
         IN  IF nextQ = Null
             THEN buildForEach(g, queue, workList, q, k + 1)
             ELSE IF sameQ # 0
             THEN buildForEach(g, setTransit(queue, q, sameQ, c), workList, q, k + 1)
             ELSE buildForEach(g,
                               setTransit(Append(queue, nextQ), q, Len(queue) + 1, c),
                               Append(workList, Len(queue) + 1), q, k + 1)

\* while (workList.length > 0) of build
buildWhile(g, queue, workList) ==
    IF Len(workList) = 0
    THEN queue
    ELSE LET r == buildForEach(g, queue, Tail(workList), Head(workList), 1)
         IN  buildWhile(g, r.queue, r.workList)

\* re2dfa, given the NFA: the materialised subset nodes; startQ is queue[1]
re2dfa(nfa) ==
    LET startQ == buildQNode(nfa, epsilonClosure(nfa, nfa.start))
    IN  [queue |-> buildWhile(nfa, <<startQ>>, <<1>>), start |-> 1]

\* ======================================================================
\* run (re2dfa.ts): the deterministic matcher
\* ======================================================================
dfaReadChar(input, index) ==
    LET char == IF index + 1 \in DOMAIN input THEN <<input[index + 1]>> ELSE Null
        index1 == IF char # Null /\ char # <<BS>> THEN index + 1 ELSE index
        nextChar == IF index1 + 1 \in DOMAIN input THEN <<input[index1 + 1]>> ELSE Null
    IN  IF char = <<BS>>
        THEN IF nextChar # Null
             THEN [char |-> char \o nextChar, index |-> index1 + 2, threw |-> FALSE]
             ELSE [char |-> Null, index |-> index1, threw |-> TRUE]
        ELSE [char |-> char, index |-> index1, threw |-> FALSE]

\* transit(node, char) of run: the target of the first transition on char,
\* or 0 for null
dfaTransit(dfa, node, char) ==
    LET ts == dfa.queue[node].transitions
    IN  IF \E k \in DOMAIN ts : ts[k].value = char
        THEN ts[CHOOSE k \in DOMAIN ts :
                    /\ ts[k].value = char
                    /\ \A j \in 1..(k - 1) : ts[j].value # char].next
        ELSE 0

RECURSIVE dfaWhile(_, _, _)
\* while (char = readChar()) { ... }; st.broke records that the loop was
\* left by break
dfaWhile(dfa, input, st) ==
    LET rd == dfaReadChar(input, st.index)
        next == dfaTransit(dfa, st.current, rd.char)
    IN  IF rd.threw THEN [st EXCEPT !.index = rd.index, !.threw = TRUE]
        ELSE IF rd.char = Null THEN [st EXCEPT !.index = rd.index]
        ELSE IF next # 0
        THEN dfaWhile(dfa, input, [st EXCEPT !.index = rd.index, !.current = next])
        ELSE [st EXCEPT !.index = rd.index, !.broke = TRUE]

\* run(regExp, input) once re2dfa(regExp) has returned dfa
dfaRun(dfa, input) ==
    LET st == dfaWhile(dfa, input,
                       [index |-> 0, current |-> dfa.start, broke |-> FALSE,
                        threw |-> FALSE])
    IN  [result |-> dfa.queue[st.current].end, index |-> st.index,
         current |-> st.current, broke |-> st.broke, threw |-> st.threw]

\* ======================================================================
\* The toy-language runtime (src/simpleCompile/runtime): a stack of frames
\* and evaluate over a syntax tree.
\*
\* A syntax-tree node is [type, text, children]: text holds the string
\* that number and identifier nodes carry as their children, children the
\* node list of every other type.  A runtime value is [kind, n].  A frame
\* is its playObject, a function from the declared names to values; a
\* frame is only ever constructed with the frame below it on the stack as
\* its parent, so parentFrame of stacks[i] is stacks[i - 1].
\* ======================================================================
MaxLines == 2
MaxBlockLen == 2

Names == {"a", "b"}
Digits == {"1"}

astNode(type, text, children) == [type |-> type, text |-> text, children |-> children]

undefinedValue == [kind |-> "undefined", n |-> 0]
numberValue(n) == [kind |-> "number", n |-> n]

\* parseInt of a one-digit string
parseInt(text) == numberValue(CASE text = "0" -> 0 [] text = "1" -> 1 [] text = "2" -> 2)

\* JavaScript truthiness of a runtime value
Truthy(v) == v.kind = "number" /\ v.n # 0

\* new Frame(parent): an empty playObject
NewFrame == <<>>

hasOwnKey(frame, key) == key \in DOMAIN frame

setOwnValue(frame, key, value) ==
    [k \in (DOMAIN frame) \cup {key} |-> IF k = key THEN value ELSE frame[k]]

\* Frame.lookUpWithKey from stacks[i] along the parent chain; 0 is null
RECURSIVE lookUpWithKey(_, _, _)
lookUpWithKey(frames, i, key) ==
    IF i = 0 THEN 0
    ELSE IF hasOwnKey(frames[i], key) THEN i
    ELSE lookUpWithKey(frames, i - 1, key)

hasScopedKey(frames, key) == lookUpWithKey(frames, Len(frames), key) # 0

getScopedValue(frames, key) ==
    LET f == lookUpWithKey(frames, Len(frames), key)
    IN  IF f # 0 THEN frames[f][key] ELSE undefinedValue

setScopedValue(frames, key, value) ==
    LET f == lookUpWithKey(frames, Len(frames), key)
        target == IF f # 0 THEN f ELSE Len(frames)
    IN  [frames EXCEPT ![target] = setOwnValue(@, key, value)]

\* the outcome of one evaluate call: the frame stack it leaves, the value
\* it returns or the Error it throws, and what it wrote to the console
returned(frames, value) ==
    [stacks |-> frames, value |-> value, threw |-> FALSE, message |-> <<>>, log |-> <<>>]

thrown(frames, message) ==
    [stacks |-> frames, value |-> undefinedValue, threw |-> TRUE, message |-> message,
     log |-> <<>>]

RECURSIVE evaluate(_, _)
RECURSIVE evaluateMap(_, _, _, _)

\* node.children.map(this.evaluate): the first throw ends the map; last is
\* result[result.length - 1] so far
evaluateMap(children, i, frames, last) ==
    IF i > Len(children) THEN returned(frames, last)
    ELSE LET r == evaluate(children[i], frames)
         IN  IF r.threw THEN r ELSE evaluateMap(children, i + 1, r.stacks, r.value)

\* case 'blockStatement': push, map, pop; a throw in the map leaves the
\* method before the pop
evaluateBlock(node, frames) ==
    LET r == evaluateMap(node.children, 1, Append(frames, NewFrame), undefinedValue)
    IN  IF r.threw THEN r
        ELSE [r EXCEPT !.stacks = SubSeq(@, 1, Len(@) - 1)]

evaluate(node, frames) ==
    CASE node.type = "root" ->
           LET r == evaluateMap(node.children, 1, frames, undefinedValue)
           IN  IF r.threw THEN r
               ELSE IF Len(node.children) > 0
                    THEN [returned(r.stacks, undefinedValue) EXCEPT !.log = <<r.value>>]
                    ELSE returned(r.stacks, undefinedValue)
      [] node.type = "number" -> returned(frames, parseInt(node.text))
      [] node.type = "identifier" ->
           IF hasScopedKey(frames, node.text)
           THEN returned(frames, getScopedValue(frames, node.text))
           ELSE thrown(frames, <<"variable", node.text, "has not defined">>)
      [] node.type = "letDeclaration" ->
           LET letName == node.children[1].text
           IN  IF hasOwnKey(frames[Len(frames)], letName)
               THEN thrown(frames, <<"variable", letName, "has been defined">>)
               ELSE LET r == IF Len(node.children) > 1
                             THEN evaluate(node.children[2], frames)
                             ELSE returned(frames, undefinedValue)
                    IN  IF r.threw THEN r
                        ELSE [r EXCEPT !.stacks[Len(r.stacks)] = setOwnValue(@, letName, r.value)]
      [] node.type = "assignStatement" ->
           LET id == node.children[1].text
           IN  IF ~hasScopedKey(frames, id)
               THEN thrown(frames, <<"variable", id, "has not defined">>)
               ELSE LET r == evaluate(node.children[2], frames)
                    IN  IF r.threw THEN r
                        ELSE [r EXCEPT !.stacks = setScopedValue(@, id, r.value)]
      [] node.type = "blockStatement" -> evaluateBlock(node, frames)
      [] node.type = "ifStatement" ->
           LET c == evaluate(node.children[1], frames)
           IN  IF c.threw THEN c
               ELSE IF Truthy(c.value) THEN evaluate(node.children[2], c.stacks)
               ELSE returned(c.stacks, undefinedValue)

\* the syntax trees the REPL is fed: one statement, or none, per line
number(d) == astNode("number", d, <<>>)
identifier(n) == astNode("identifier", n, <<>>)
blockStatement(ss) == astNode("blockStatement", "", ss)

Exprs == {number(d) : d \in Digits} \cup {identifier(n) : n \in Names}

Lets ==
    {astNode("letDeclaration", "", <<identifier(n)>>) : n \in Names}
    \cup {astNode("letDeclaration", "", <<identifier(n), number(d)>>) :
            n \in Names, d \in Digits}

Assigns ==
    {astNode("assignStatement", "", <<identifier(n), number(d)>>) : n \in Names, d \in Digits}

Simple == Exprs \cup Lets \cup Assigns

Blocks == {blockStatement(ss) : ss \in Strs(Simple, MaxBlockLen)}

ShortBlocks == {blockStatement(ss) : ss \in Strs(Simple, 1)}

NestedBlocks == {blockStatement(<<b>>) : b \in ShortBlocks}

Ifs == {astNode("ifStatement", "", <<c, b>>) : c \in Exprs, b \in ShortBlocks}

Statements == Simple \cup Blocks \cup NestedBlocks \cup Ifs

Programs == {astNode("root", "", ss) : ss \in Strs(Statements, 1)}

\* ======================================================================
\* The program: a pattern is parsed and compiled, then the two matchers are
\* run on an input.
\* ======================================================================
VARIABLES regex, input, pc, parsed, nfa, dfa, nfaResult, dfaResult, stacks, output

vars == <<regex, input, pc, parsed, nfa, dfa, nfaResult, dfaResult, stacks, output>>

NoNFA == [nodes |-> <<>>, id |-> 0, start |-> 0]
NoDFA == [queue |-> <<>>, start |-> 0]
NoResult == [done |-> FALSE]
NoOutput == [lines |-> 0, threw |-> FALSE, message |-> <<>>, log |-> <<>>]

Init ==
    /\ regex \in Patterns
    /\ input = <<>>
    /\ pc = "start"
    /\ parsed = reResInit(regex)
    /\ nfa = NoNFA
    /\ dfa = NoDFA
    /\ nfaResult = NoResult
    /\ dfaResult = NoResult
    /\ stacks = <<NewFrame>>
    /\ output = NoOutput

\* const reTree = reRes(input)
Parse ==
    /\ pc = "start"
    /\ parsed' = reRes(regex)
    /\ pc' = IF Threw(parsed') THEN "syntaxError" ELSE "parsed"
    /\ UNCHANGED <<stacks, output, regex, input, nfa, dfa, nfaResult, dfaResult>>

\* const start = re2nfa(regex)
CompileNFA ==
    /\ pc = "parsed"
    /\ nfa' = re2nfa(parsed.value)
    /\ pc' = "nfa"
    /\ UNCHANGED <<stacks, output, regex, input, parsed, dfa, nfaResult, dfaResult>>

\* let current = re2dfa(regExp)
CompileDFA ==
    /\ pc = "nfa"
    /\ dfa' = re2dfa(nfa)
    /\ pc' = "dfa"
    /\ UNCHANGED <<stacks, output, regex, input, parsed, nfa, nfaResult, dfaResult>>

\* the caller picks the string to match
ChooseInput ==
    /\ pc = "dfa"
    /\ input' \in Inputs
    /\ pc' = "match"
    /\ UNCHANGED <<stacks, output, regex, parsed, nfa, dfa, nfaResult, dfaResult>>

\* run(regex, input) of re2nfa.ts
MatchNFA ==
    /\ pc = "match"
    /\ ~nfaResult.done
    /\ LET st == nfaRun(nfa, input)
       IN  nfaResult' = [done |-> TRUE, result |-> st.inTheEnd, index |-> st.index,
                         threw |-> st.threw, advanced |-> st.advanced]
    /\ UNCHANGED <<stacks, output, regex, input, pc, parsed, nfa, dfa, dfaResult>>

\* run(regExp, input) of re2dfa.ts
MatchDFA ==
    /\ pc = "match"
    /\ ~dfaResult.done
    /\ LET r == dfaRun(dfa, input)
       IN  dfaResult' = [done |-> TRUE, result |-> r.result, index |-> r.index,
                         current |-> r.current, broke |-> r.broke, threw |-> r.threw]
    /\ UNCHANGED <<stacks, output, regex, input, pc, parsed, nfa, dfa, nfaResult>>

Next ==
    \/ Parse
    \/ CompileNFA
    \/ CompileDFA
    \/ ChooseInput
    \/ MatchNFA
    \/ MatchDFA

Spec == Init /\ [][Next]_vars

\* ----------------------------------------------------------------------
\* build of re2dfa one iteration of its while loop at a time; dfa holds
\* queue and workList while pc = "build".  A run of the loop is not
\* followed past MaxDfaStates materialised nodes.
\* ----------------------------------------------------------------------

\* const startQ = buildQNode(epsilonClosure(start)); queue, workList = [startQ]
BuildStart ==
    /\ pc = "nfa"
    /\ dfa' = [queue |-> <<buildQNode(nfa, epsilonClosure(nfa, nfa.start))>>,
               start |-> 1, workList |-> <<1>>]
    /\ pc' = "build"
    /\ UNCHANGED <<stacks, output, regex, input, parsed, nfa, nfaResult, dfaResult>>

\* one iteration of while (workList.length > 0)
BuildStep ==
    /\ pc = "build"
    /\ Len(dfa.workList) > 0
    /\ Len(dfa.queue) < MaxDfaStates
    /\ dfa' = [buildForEach(nfa, dfa.queue, Tail(dfa.workList), Head(dfa.workList), 1)
                   EXCEPT !.queue = @] @@ [start |-> 1]
    /\ UNCHANGED <<stacks, output, regex, input, pc, parsed, nfa, nfaResult, dfaResult>>

\* return startQ
BuildReturn ==
    /\ pc = "build"
    /\ Len(dfa.workList) = 0
    /\ dfa' = [queue |-> dfa.queue, start |-> dfa.start]
    /\ pc' = "dfa"
    /\ UNCHANGED <<stacks, output, regex, input, parsed, nfa, nfaResult, dfaResult>>

NextBuild ==
    \/ Parse
    \/ CompileNFA
    \/ BuildStart
    \/ BuildStep
    \/ BuildReturn

\* the loop is synchronous code: it keeps running while it can
SpecBuild == Init /\ [][NextBuild]_vars

\* ----------------------------------------------------------------------
\* Further calls of the matchers on the automata of one pattern: a result
\* records how many calls have returned (one when the field is absent), up
\* to MaxCalls.
\* ----------------------------------------------------------------------
Calls(r) == IF ~r.done THEN 0 ELSE IF "calls" \in DOMAIN r THEN r.calls ELSE 1

\* run of re2dfa.ts with the automaton handle overwritten by the loop's
\* current = nextNode
RematchDFA_movesStart ==
    /\ pc = "match"
    /\ dfaResult.done
    /\ Calls(dfaResult) < MaxCalls
    /\ LET r == dfaRun(dfa, input)
       IN  /\ dfaResult' = [done |-> TRUE, result |-> r.result, index |-> r.index,
                            current |-> r.current, broke |-> r.broke, threw |-> r.threw,
                            calls |-> Calls(dfaResult) + 1]
           /\ dfa' = [dfa EXCEPT !.start = r.current]
    /\ UNCHANGED <<stacks, output, regex, input, pc, parsed, nfa, nfaResult>>

\* run(regExp, input) of re2dfa.ts, called again
RematchDFA ==
    /\ pc = "match"
    /\ dfaResult.done
    /\ Calls(dfaResult) < MaxCalls
    /\ LET r == dfaRun(dfa, input)
       IN  dfaResult' = [done |-> TRUE, result |-> r.result, index |-> r.index,
                         current |-> r.current, broke |-> r.broke, threw |-> r.threw,
                         calls |-> Calls(dfaResult) + 1]
    /\ UNCHANGED <<stacks, output, regex, input, pc, parsed, nfa, dfa, nfaResult>>

\* run(regex, input) of re2nfa.ts, called again
RematchNFA ==
    /\ pc = "match"
    /\ nfaResult.done
    /\ Calls(nfaResult) < MaxCalls
    /\ LET st == nfaRun(nfa, input)
       IN  nfaResult' = [done |-> TRUE, result |-> st.inTheEnd, index |-> st.index,
                         threw |-> st.threw, advanced |-> st.advanced,
                         calls |-> Calls(nfaResult) + 1]
    /\ UNCHANGED <<stacks, output, regex, input, pc, parsed, nfa, dfa, dfaResult>>

NextRepeat ==
    \/ Parse
    \/ CompileNFA
    \/ CompileDFA
    \/ ChooseInput
    \/ MatchNFA
    \/ MatchDFA
    \/ RematchNFA
    \/ RematchDFA

SpecRepeat == Init /\ [][NextRepeat]_vars

\* ----------------------------------------------------------------------
\* The REPL of run.ts: one Runtime for the session; each line is parsed
\* and evaluated inside try/catch, and the session reads the next line
\* whatever happened.  The session is followed for MaxLines lines.
\* ----------------------------------------------------------------------
InitRuntime ==
    /\ regex = <<>>
    /\ input = <<>>
    /\ pc = "start"
    /\ parsed = reResInit(regex)
    /\ nfa = NoNFA
    /\ dfa = NoDFA
    /\ nfaResult = NoResult
    /\ dfaResult = NoResult
    /\ stacks = <<NewFrame>>
    /\ output = NoOutput

\* rl.on('line'): syntaxParser(input) returns a tree, runtime.evaluate
\* runs on it; a throw is caught and its message printed
LineEvaluated ==
    /\ output.lines < MaxLines
    /\ \E ast \in Programs :
          LET r == evaluate(ast, stacks)
          IN  /\ stacks' = r.stacks
              /\ output' = [lines |-> output.lines + 1, threw |-> r.threw,
                            message |-> r.message, log |-> r.log]
    /\ UNCHANGED <<regex, input, pc, parsed, nfa, dfa, nfaResult, dfaResult>>

\* rl.on('line'): syntaxParser(input) throws, evaluate is never called
LineRejected ==
    /\ output.lines < MaxLines
    /\ output' = [lines |-> output.lines + 1, threw |-> TRUE,
                  message |-> <<"parsing error">>, log |-> <<>>]
    /\ UNCHANGED <<regex, input, pc, parsed, nfa, dfa, nfaResult, dfaResult, stacks>>

NextRuntime ==
    \/ LineEvaluated
    \/ LineRejected

SpecRuntime == InitRuntime /\ [][NextRuntime]_vars

\* ----------------------------------------------------------------------
\* The program on patterns of more than a hundred NFA nodes, where the
\* joined ids of two different subsets can coincide ("109" is both node
\* 109 alone and the nodes 10 and 9).
\* ----------------------------------------------------------------------
\* (b|c(bbbcabcacbccca|cabcbbbc)(bccababaccbccb|ababbbbb|acbab))c
CollidingPatterns ==
    { <<"(", "b", "|", "c", "(", "b", "b", "b", "c", "a", "b", "c", "a", "c",
        "b", "c", "c", "c", "a", "|", "c", "a", "b", "c", "b", "b", "b", "c",
        ")", "(", "b", "c", "c", "a", "b", "a", "b", "a", "c", "c", "b", "c",
        "c", "b", "|", "a", "b", "a", "b", "b", "b", "b", "b", "|", "a", "c",
        "b", "a", "b", ")", ")", "c">> }

InitColliding ==
    /\ regex \in LongPatterns \cup CollidingPatterns
    /\ input = <<>>
    /\ pc = "start"
    /\ parsed = reResInit(regex)
    /\ nfa = NoNFA
    /\ dfa = NoDFA
    /\ nfaResult = NoResult
    /\ dfaResult = NoResult
    /\ stacks = <<NewFrame>>
    /\ output = NoOutput

SpecColliding == InitColliding /\ [][Next]_vars

\* ======================================================================
\* Properties
\* ======================================================================

\* The logical characters of a string: a character other than a backslash
\* alone, a backslash together with the character after it.  A backslash
\* with nothing after it is left as a unit of its own.
RECURSIVE LogicalChars(_)
LogicalChars(s) ==
    IF Len(s) = 0 THEN <<>>
    ELSE IF s[1] = BS /\ Len(s) >= 2
    THEN <<SubSeq(s, 1, 2)>> \o LogicalChars(SubSeq(s, 3, Len(s)))
    ELSE <<SubSeq(s, 1, 1)>> \o LogicalChars(Tail(s))

\* the last character is a backslash that escapes nothing and is not escaped
DanglingEscape(s) ==
    LET u == LogicalChars(s) IN Len(u) > 0 /\ u[Len(u)] = <<BS>>

\* the number of groups left open after the logical characters u[1..i]
RECURSIVE OpenGroups(_, _)
OpenGroups(u, i) ==
    IF i = 0 THEN 0
    ELSE LET d == OpenGroups(u, i - 1)
         IN  IF u[i] = <<"(">> THEN d + 1
             ELSE IF u[i] = <<")">> /\ d > 0 THEN d - 1
             ELSE d

\* some '(' of the pattern has no matching ')'
HasUnclosedGroup(s) == OpenGroups(LogicalChars(s), Len(LogicalChars(s))) > 0

\* the nodes reachable from the nodes of S by epsilon transitions alone
RECURSIVE EpsReach(_, _)
EpsReach(g, S) ==
    LET T == S \cup { NodeOf(g, n).transitions[k].next :
                        <<n, k>> \in { <<m, j>> \in S \X (1..Len(g.nodes)) :
                                          /\ j \in DOMAIN NodeOf(g, m).transitions
                                          /\ NodeOf(g, m).transitions[j].value = Epsilon } }
    IN  IF T = S THEN S ELSE EpsReach(g, T)

\* the nodes at the end of the paths from the start node whose non-epsilon
\* labels spell w[1..i]
RECURSIVE PathEnds(_, _, _)
PathEnds(g, w, i) ==
    IF i = 0 THEN EpsReach(g, {g.start})
    ELSE LET S == PathEnds(g, w, i - 1)
             T == { NodeOf(g, n).transitions[k].next :
                      <<n, k>> \in { <<m, j>> \in S \X (1..Len(g.nodes)) :
                                        /\ j \in DOMAIN NodeOf(g, m).transitions
                                        /\ NodeOf(g, m).transitions[j].value = w[i] } }
         IN  EpsReach(g, T)

\* the NFA has a path from its start node to its end node that spells w
PathSpells(g, w) == \E n \in PathEnds(g, w, Len(w)) : NodeOf(g, n).type = "end"

NFAReturned == nfaResult.done /\ ~nfaResult.threw
DFAReturned == dfaResult.done /\ ~dfaResult.threw

\* C1: for every pattern that parses and every input, the NFA matcher and
\* the DFA matcher return the same boolean.
C1_SameBoolean ==
    (NFAReturned /\ DFAReturned) => (nfaResult.result = dfaResult.result)

\* C2: the NFA matcher is full-match only: it returns true only if the end
\* node is reached with the cursor at end-of-input.
C2_FullMatchOnly ==
    (NFAReturned /\ nfaResult.result) => (nfaResult.index >= Len(input))

\* C3: if the NFA has a path from start to end that spells exactly the
\* logical characters of the input, the NFA matcher returns true.
C3_Completeness ==
    (nfaResult.done /\ ~DanglingEscape(input) /\ PathSpells(nfa, LogicalChars(input)))
        => (NFAReturned /\ nfaResult.result)

\* C4: in the DFA matcher, a logical character for which the current state
\* has no transition makes the result false, accepting state or not.
C4_MissingTransitionFails ==
    (DFAReturned /\ dfaResult.broke) => (dfaResult.result = FALSE)

\* C5: for the pattern a|b the NFA matcher returns true for "a" and "b" and
\* false for "ab" and "".
C5_Alternation ==
    (NFAReturned /\ regex = <<"a", "|", "b">>) =>
        /\ (input \in {<<"a">>, <<"b">>}) => nfaResult.result
        /\ (input \in {<<"a", "b">>, <<>>}) => ~nfaResult.result

\* C6: * is zero-or-more: a* matches "", "a", "aaaa" and not "b"; (ab)*
\* matches "", "ab", "abab" and not "a", "aba".
C6_ZeroOrMore ==
    /\ (NFAReturned /\ regex = <<"a", "*">>) =>
        /\ (input \in {<<>>, <<"a">>, <<"a", "a", "a", "a">>}) => nfaResult.result
        /\ (input = <<"b">>) => ~nfaResult.result
    /\ (NFAReturned /\ regex = <<"(", "a", "b", ")", "*">>) =>
        /\ (input \in {<<>>, <<"a", "b">>, <<"a", "b", "a", "b">>}) => nfaResult.result
        /\ (input \in {<<"a">>, <<"a", "b", "a">>}) => ~nfaResult.result

\* C7: for the pattern (a|b)*c the NFA matcher returns true for "aabbc" and
\* "c" and false for "aabb" and "".
C7_StarThenChar ==
    (NFAReturned /\ regex = <<"(", "a", "|", "b", ")", "*", "c">>) =>
        /\ (input \in {<<"a", "a", "b", "b", "c">>, <<"c">>}) => nfaResult.result
        /\ (input \in {<<"a", "a", "b", "b">>, <<>>}) => ~nfaResult.result

\* C8: for the pattern a\* (a, backslash, star) the NFA matcher returns
\* true for the two-character input a* and false for every other input.
C8_EscapedStar ==
    (NFAReturned /\ regex = <<"a", BS, "*">>) =>
        (nfaResult.result <=> (input = <<"a", "*">>))

\* C9: a pattern with a '(' that no ')' closes fails to parse with a syntax
\* error; no tree and no automaton is returned.
C9_UnclosedGroupFails ==
    (pc # "start" /\ HasUnclosedGroup(regex)) =>
        /\ pc = "syntaxError"
        /\ Threw(parsed)
        /\ parsed.value = Null
        /\ nfa = NoNFA /\ dfa = NoDFA

C9_Witness ==
    /\ pc = "syntaxError"
    /\ regex = <<"(", "a">>
    /\ parsed.error.msg = "invalid group"

\* C10: a pattern whose last character is an unescaped backslash with no
\* character after it fails to parse with a syntax error.
C10_DanglingEscapeFails ==
    (pc # "start" /\ DanglingEscape(regex)) =>
        (pc = "syntaxError" /\ Threw(parsed))

C10_Witness ==
    /\ pc = "syntaxError"
    /\ regex = <<"a", BS>>
    /\ parsed.error.msg = "dangling escape"

Compiled == pc \in {"parsed", "nfa", "dfa", "match"}

\* C11: parse succeeds only if the whole pattern was consumed: when reRes
\* returns a tree the scan index equals the pattern length, and when input
\* remains after the top-level or-expression (as in "a)") parsing fails.
C11_WholePatternConsumed ==
    /\ Compiled => (~Threw(parsed) /\ parsed.index = Len(regex))
    /\ (pc # "start" /\ ~Threw(readOrExpr(reResInit(regex)))
                     /\ readOrExpr(reResInit(regex)).index < Len(regex))
           => (pc = "syntaxError" /\ Threw(parsed))

C11_Witness ==
    /\ pc = "syntaxError"
    /\ regex = <<"a", ")">>
    /\ parsed.error.name = "Error"
    /\ parsed.index = 1

\* C12: for every pattern that compiles and every input, both matchers
\* return a boolean and never raise an error.
C12_MatchersNeverRaise ==
    /\ nfaResult.done => ~nfaResult.threw
    /\ dfaResult.done => ~dfaResult.threw

Members(q) == {q.set[i] : i \in DOMAIN q.set}

\* C14: the id of a subset state is a pure function of its membership.  In
\* the automaton build returns, whenever the subset reached from a
\* materialised state by one of its valid inputs is looked up in the queue,
\* a queue state has the id of that subset if and only if it has the same
\* member ids; and no two materialised states have equal member sets.
C14_IdentityIsMembership ==
    pc = "dfa" =>
        /\ \A i \in DOMAIN dfa.queue : \A k \in DOMAIN dfa.queue[i].validInput :
               LET nq == qTransit(nfa, dfa.queue[i], dfa.queue[i].validInput[k])
               IN  \A j \in DOMAIN dfa.queue :
                       (dfa.queue[j].id = nq.id) <=> (Members(dfa.queue[j]) = Members(nq))
        /\ \A i, j \in DOMAIN dfa.queue :
               Members(dfa.queue[i]) = Members(dfa.queue[j]) => i = j

C17_SameLogicalChar ==
    pc = "match" =>
        \A i \in 0..Len(input) :
            LET r == read([reResInit(input) EXCEPT !.index = i])
                n == nfaReadChar(input, i)
                d == dfaReadChar(input, i)
            IN  ~Threw(r) =>
                    /\ ~n.threw /\ n.char = r.value /\ n.index = r.index
                    /\ ~d.threw /\ d.char = r.value /\ d.index = r.index

\* C18: every syntax error that reaches the caller of the parser carries the
\* deepest scan position reached: the position in the error is longestIndex,
\* the largest value the scan index took over all reads, for an error with a
\* message as for one without.
C18_ErrorAtDeepestPosition ==
    pc = "syntaxError" => parsed.error.pos = parsed.longestIndex

\* C19: the pattern () is legal.  It parses without error to a group whose
\* child is a union with no children (the group being the one item of the
\* pattern's own union), the NFA compiled from it is a start
\* node with one epsilon transition to an end node, and both matchers
\* accept the empty input and no other input.
C19_EmptyGroup ==
    regex = <<"(", ")">> =>
        /\ pc # "syntaxError"
        /\ pc # "start" =>
               parsed.value =
                   [type |-> "union",
                    children |-> <<[type |-> "group",
                                    child |-> [type |-> "union", children |-> <<>>]]>>]
        /\ pc \in {"nfa", "dfa", "match"} =>
               /\ Len(nfa.nodes) = 2
               /\ NodeOf(nfa, nfa.start).type = "start"
               /\ Len(NodeOf(nfa, nfa.start).transitions) = 1
               /\ NodeOf(nfa, nfa.start).transitions[1].value = Epsilon
               /\ NodeOf(nfa, NodeOf(nfa, nfa.start).transitions[1].next).type = "end"
        /\ NFAReturned => (nfaResult.result <=> input = <<>>)
        /\ DFAReturned => (dfaResult.result <=> input = <<>>)

\* a repetition node anywhere in a parsed tree whose child is neither a
\* char nor a group
RECURSIVE BadMulti(_)
BadMulti(node) ==
    IF node.type = "char" THEN FALSE
    ELSE IF node.type = "multi"
    THEN node.child.type \notin {"char", "group"} \/ BadMulti(node.child)
    ELSE IF node.type = "group" THEN BadMulti(node.child)
    ELSE \E i \in DOMAIN node.children : BadMulti(node.children[i])

\* an unescaped '*' that opens the pattern or directly follows an unescaped
\* '*', '|' or '('
StarMisplaced(s) ==
    LET u == LogicalChars(s)
    IN  \E i \in DOMAIN u :
            /\ u[i] = <<"*">>
            /\ i = 1 \/ u[i - 1] \in {<<"*">>, <<"|">>, <<"(">>}

\* C20: an unescaped * is accepted only directly after a char or a group.
\* Every pattern with a * in another place (first in the pattern, or right
\* after a *, a '|' or a '(') ends in a syntax error, and in every tree the
\* parser returns the child of each repetition node is a char or a group.
C20_StarAfterCharOrGroup ==
    /\ pc # "start" /\ StarMisplaced(regex) => pc = "syntaxError"
    /\ Compiled => ~BadMulti(parsed.value)

C20_Witness ==
    /\ regex = <<"a", "*", "*">>
    /\ pc = "syntaxError"
    /\ parsed.error.name = "Error"
    /\ parsed.index = 2

\* C21: in the NFA matcher, whenever a transition out of a node is about to
\* be tried, the cursor is where it stood when the node was entered: no
\* advance made by an earlier alternative that failed is visible to a later
\* alternative of the node or of a caller's node.
C21_CursorRestored ==
    NFAReturned => ~nfaResult.advanced

\* C22: the NFA matcher terminates for every compiled pattern and every
\* input, epsilon cycles included: no call of transit is made for a node
\* and cursor for which a call is already in progress, so the depth-first
\* exploration does not follow epsilon transitions without end.
C22_NFAMatcherTerminates ==
    pc = "match" /\ nfaResult.done => ~nfaResult.threw

\* C24: a fatal error is never swallowed.  Once an error named 'dead' has
\* been thrown during a parse, through whichever of orRead, existRead and
\* multiRead it passes, the parse ends in a syntax error that is still
\* fatal: no tree is returned and no recoverable error replaces it.
C24_FatalReachesCaller ==
    pc # "start" /\ parsed.deadRaised =>
        /\ pc = "syntaxError"
        /\ parsed.error.name = "dead"

C24_Witness ==
    /\ regex = <<"a", "|", "(">>
    /\ pc = "syntaxError"
    /\ parsed.deadRaised
    /\ parsed.error.name = "dead"
    /\ parsed.error.msg = "invalid orExpr"

\* the parser with its scan index at position i of the pattern
ScanAt(i) == [reResInit(regex) EXCEPT !.index = i, !.longestIndex = i]

\* a reading that ended in an error that is not fatal
FailedSoft(r) == Threw(r) /\ r.error.name # "dead"

\* the scan index after the last iteration of reading that succeeds from st
RECURSIVE LastGoodIndex(_, _)
LastGoodIndex(st, reading) ==
    IF st.index >= Len(st.input) THEN st.index
    ELSE LET r == call(reading, st)
         IN  IF Threw(r) THEN st.index ELSE LastGoodIndex(r, reading)

\* C25: recoverable failures leave no partial consumption.  From every scan
\* position of the pattern: when the reading of existRead fails recoverably,
\* existRead returns with the index at its entry value; when the first
\* branch of orRead fails recoverably, the second branch reads from the
\* entry index, and when it fails recoverably too orRead gives up with the
\* index at its entry value; and when multiRead returns, the index is the
\* one after its last successful iteration.
C25_NoPartialConsumption ==
    pc \in {"parsed", "syntaxError"} =>
        \A i \in 0..Len(regex) :
            /\ \A reading \in {"readStar", "readCharExpr", "readGroupExpr"} :
                   FailedSoft(call(reading, ScanAt(i))) =>
                       /\ ~Threw(existRead(ScanAt(i), reading))
                       /\ existRead(ScanAt(i), reading).index = i
            /\ LET first == readCharExpr(ScanAt(i))
                   second == readGroupExpr(ScanAt(i))
                   o == orRead(ScanAt(i), <<"readCharExpr", "readGroupExpr">>)
               IN  FailedSoft(first) =>
                       /\ Threw(o) = Threw(second)
                       /\ ~Threw(second) => o.index = second.index /\ o.value = second.value
                       /\ Threw(second) => o.error.name = second.error.name
                       /\ FailedSoft(second) => o.index = i
            /\ \A reading \in {"readMultiExpr", "readOrExprNext"} :
                   LET m == multiRead(ScanAt(i), reading, TRUE)
                   IN  ~Threw(m) => m.index = LastGoodIndex(ScanAt(i), reading)

C25_Witness ==
    /\ regex = <<"a", "b", ")">>
    /\ pc = "syntaxError"
    /\ FailedSoft(readStar(ScanAt(1)))
    /\ readStar(ScanAt(1)).index = 2
    /\ existRead(ScanAt(1), "readStar").index = 1
    /\ FailedSoft(orRead(ScanAt(2), <<"readCharExpr", "readGroupExpr">>))
    /\ multiRead(ScanAt(0), "readMultiExpr", TRUE).index = 2

\* C26: multiRead in one-or-more mode (allowEmpty = false) raises a fatal
\* error whenever no iteration succeeded, both when the first iteration
\* fails recoverably and when the index is at the end of the input so that
\* no iteration is attempted; in zero-or-more mode it succeeds.
C26_OneOrMoreFatal ==
    pc \in {"parsed", "syntaxError"} =>
        \A i \in 0..Len(regex) :
            i >= Len(regex) \/ FailedSoft(readMultiExpr(ScanAt(i))) =>
                /\ Threw(multiRead(ScanAt(i), "readMultiExpr", FALSE))
                /\ multiRead(ScanAt(i), "readMultiExpr", FALSE).error.name = "dead"
                /\ ~Threw(multiRead(ScanAt(i), "readMultiExpr", TRUE))

NFABuilt == pc \in {"nfa", "dfa", "match"}

\* C27: in every fully built NFA exactly one node has kind 'start', the node
\* re2nfa returns, exactly one node has kind 'end', and every other node has
\* kind 'normal'.
C27_OneStartOneEnd ==
    NFABuilt =>
        /\ {i \in DOMAIN nfa.nodes : nfa.nodes[i].type = "start"} = {nfa.start + 1}
        /\ Cardinality({i \in DOMAIN nfa.nodes : nfa.nodes[i].type = "end"}) = 1
        /\ \A i \in DOMAIN nfa.nodes : nfa.nodes[i].type \in {"start", "end", "normal"}

C27_Witness ==
    /\ NFABuilt
    /\ regex = <<"(", "a", "|", "b", ")", "*", "c">>
    /\ Len(nfa.nodes) = 10
    /\ nfa.start = 0
    /\ nfa.nodes[10].type = "end"
    /\ Cardinality({i \in DOMAIN nfa.nodes : nfa.nodes[i].type = "normal"}) = 8

\* the number of tree nodes under node for which build creates NFA nodes:
\* every char, or and multi node and every union without children
RECURSIVE Creators(_)
RECURSIVE CreatorsOf(_, _)
Creators(node) ==
    CASE node.type = "char" -> 1
      [] node.type = "multi" -> 1 + Creators(node.child)
      [] node.type = "group" -> Creators(node.child)
      [] node.type = "or" -> 1 + CreatorsOf(node.children, Len(node.children))
      [] node.type = "union" ->
             IF Len(node.children) = 0 THEN 1
             ELSE CreatorsOf(node.children, Len(node.children))

CreatorsOf(children, n) ==
    IF n = 0 THEN 0 ELSE CreatorsOf(children, n - 1) + Creators(children[n])

\* C28: NFA node ids are unique and strictly increasing in creation order
\* (0, 1, 2, ... within one compilation), and the id counter advances once
\* per node created: two per char, or, multi and empty union tree node, none
\* for a group or a union with children.
C28_IdsCountCreation ==
    NFABuilt =>
        /\ \A i \in DOMAIN nfa.nodes : nfa.nodes[i].id = i - 1
        /\ nfa.id = Len(nfa.nodes)
        /\ nfa.id = 2 * Creators(parsed.value)

C28_Witness ==
    /\ NFABuilt
    /\ regex = <<"(", ")", "*">>
    /\ Creators(parsed.value) = 2
    /\ nfa.id = 4
    /\ nfa.nodes[4].id = 3

\* the non-epsilon labels that leave the member NFA nodes of a subset state
MemberLabels(g, q) ==
    { NodeOf(g, n).transitions[k].value :
          <<n, k>> \in { <<m, j>> \in Members(q) \X (1..Len(g.nodes)) :
                            /\ j \in DOMAIN NodeOf(g, m).transitions
                            /\ NodeOf(g, m).transitions[j].value # Epsilon } }

\* C29: every materialised DFA state is deterministic and complete over its
\* own alphabet: it has at most one transition per symbol, and it has a
\* transition for a symbol exactly when the symbol is in its validInput,
\* which is the set of the non-epsilon labels leaving its member NFA nodes.
C29_DeterministicComplete ==
    pc \in {"dfa", "match"} =>
        \A i \in DOMAIN dfa.queue :
            LET q == dfa.queue[i]
            IN  /\ \A j, k \in DOMAIN q.transitions :
                       q.transitions[j].value = q.transitions[k].value => j = k
                /\ {q.transitions[k].value : k \in DOMAIN q.transitions}
                       = {q.validInput[k] : k \in DOMAIN q.validInput}
                /\ {q.validInput[k] : k \in DOMAIN q.validInput} = MemberLabels(nfa, q)
                /\ \A k \in DOMAIN q.transitions :
                       q.transitions[k].next \in DOMAIN dfa.queue

C29_Witness ==
    /\ pc = "dfa"
    /\ regex = <<"a", "b", "|", "a">>
    /\ Len(dfa.queue[1].transitions) = 1
    /\ dfa.queue[1].transitions[1].value = <<"a">>
    /\ Len(dfa.queue[dfa.queue[1].transitions[1].next].transitions) = 1

\* C30: evaluating a blockStatement leaves the frame stack at the depth it
\* had before the block, whether the body completes or throws; so every
\* REPL line, failed or not, leaves only the global frame on the stack and
\* the next line is evaluated in it.
C30_BlockRestoresDepth == Len(stacks) = 1

\* The second half of C30 on its own: a name that is visible to the next
\* line was declared in the global frame.
C30_FailedBlockInvisible ==
    \A n \in Names : hasScopedKey(stacks, n) => hasOwnKey(stacks[1], n)

\* the labels of the non-epsilon transitions of the NFA
NFALabels(g) ==
    { NodeOf(g, n).transitions[k].value :
        <<n, k>> \in { <<m, j>> \in (0..(Len(g.nodes) - 1)) \X (1..Len(g.nodes)) :
                          /\ j \in DOMAIN NodeOf(g, m).transitions
                          /\ NodeOf(g, m).transitions[j].value # Epsilon } }

\* the DFA state reached from node by following w[i..] through existing
\* transitions, 0 when a transition is missing
RECURSIVE DfaWalk(_, _, _, _)
DfaWalk(d, w, i, node) ==
    IF i > Len(w) THEN node
    ELSE LET next == dfaTransit(d, node, w[i])
         IN  IF next = 0 THEN 0 ELSE DfaWalk(d, w, i + 1, next)

DfaAccepts(d, w) ==
    LET n == DfaWalk(d, w, 1, d.start)
    IN  n # 0 /\ d.queue[n].end

\* C23: subset construction preserves the language: for every parsed
\* pattern and every sequence w of logical characters, following w from the
\* DFA start state through existing transitions ends in an accepting state
\* exactly when the NFA has a path from its start node to its end node
\* whose non-epsilon labels spell w.  A symbol that labels no NFA
\* transition has no DFA transition either, so w ranges over the labels of
\* the NFA.
C23_LanguagePreserved ==
    pc \in {"dfa", "match"} =>
        \A w \in Strs(NFALabels(nfa), MaxInLen) :
            DfaAccepts(dfa, w) <=> PathSpells(nfa, w)

====
